---- MODULE Spec2Model ----
(***************************************************************************)
(* A model of the Pava interpreter (src/pava.py): the lexer `tokenize`,    *)
(* the recursive-descent parser `parse`, the value classes `String` and    *)
(* `Int`, the tree-walking evaluator `evaluate_ast` and the line loop of   *)
(* `run_pava_code`.                                                        *)
(*                                                                         *)
(* Text is a sequence of one-character strings.  A token is a pair         *)
(* <<kind, lexeme>>.  Python objects live in `heap` (reference -> value),  *)
(* the interpreter's `variables` dictionary maps a name to a reference, so *)
(* that two names bound to the same object are visible as such.  A raised  *)
(* exception is a record [type |-> <Python exception class>, arg |-> text].*)
(***************************************************************************)
EXTENDS Integers, Sequences, FiniteSets, TLC

VARIABLES
    code,        \* tokenize: the text being lexed
    position,    \* tokenize: the cursor (0-based, as in the source)
    tokens,      \* the token list (tokenize appends, parse pops from the front)
    ast,         \* abstract_syntax_tree of the statement last parsed
    variables,   \* run_pava_code: name -> reference
    heap,        \* reference -> [type, value]
    out,         \* lines written by print, in order
    err,         \* the exception that ended the operation, or NoError
    args,        \* run_pava_code: the local `args`, references of the last call's arguments
    evalueation, \* run_pava_code: the local `evalueation`, <<>> while unassigned
    line,        \* run_pava_code: the stripped line of the current iteration
    lineno,      \* run_pava_code: number of lines read so far
    rendered,    \* text rendering of the literal tokens of `tokens`
    operands,    \* the two texts String.__sub__ was applied to
    pc           \* position of the operation under study

vars == <<code, position, tokens, ast, variables, heap, out, err, args,
          evalueation, line, lineno, rendered, operands, pc>>

----------------------------------------------------------------------------
(* Bounds *)

MaxCodeLen == 3      \* longest exhaustively enumerated text given to tokenize
MaxTokens  == 4      \* longest exhaustively enumerated token list given to parse
MaxLines   == 3      \* lines of one run
MaxStrLen  == 3      \* longest operand text given to String.__sub__

----------------------------------------------------------------------------
(* Characters.  The patterns \d, \w and \s are modelled on ASCII text.     *)

Digits == {"0", "1", "2", "3", "4", "5", "6", "7", "8", "9"}

Letters ==
    {"a", "b", "c", "d", "e", "f", "g", "h", "i", "j", "k", "l", "m",
     "n", "o", "p", "q", "r", "s", "t", "u", "v", "w", "x", "y", "z",
     "A", "B", "C", "D", "E", "F", "G", "H", "I", "J", "K", "L", "M",
     "N", "O", "P", "Q", "R", "S", "T", "U", "V", "W", "X", "Y", "Z"}

WordChars == Letters \cup Digits \cup {"_"}

OperatorChars == {"+", "-", "*", "/", "="}

ParenChars == {"(", ")"}

\* the control characters U+000B and U+001C .. U+001F, written literally
VT == ""

FS == ""

GS == ""

RS == ""

US == ""

\* what \s matches and str.strip() removes
SpaceChars == {" ", "\t", "\n", "\r", "\f", VT, FS, GS, RS, US}

DQ == "\""

SQ == "'"

NoError == [type |-> "none", arg |-> <<>>]

Raise(t, a) == [type |-> t, arg |-> a]

----------------------------------------------------------------------------
(* Text helpers: the Python str methods the source uses *)

Drop(s, n) == SubSeq(s, n + 1, Len(s))

\* length of the longest prefix of s whose characters are all in S
RECURSIVE PrefixLen(_, _)
PrefixLen(s, S) ==
    IF s = <<>> \/ Head(s) \notin S THEN 0 ELSE 1 + PrefixLen(Tail(s), S)

\* index of the first occurrence of c in s, 0 if there is none
RECURSIVE IndexOf(_, _)
IndexOf(s, c) ==
    IF s = <<>> THEN 0
    ELSE IF Head(s) = c THEN 1
    ELSE LET i == IndexOf(Tail(s), c) IN IF i = 0 THEN 0 ELSE i + 1

\* str.replace(c, '', 1)
ReplaceFirst(s, c) ==
    LET i == IndexOf(s, c) IN
    IF i = 0 THEN s ELSE SubSeq(s, 1, i - 1) \o SubSeq(s, i + 1, Len(s))

\* str.strip()
RECURSIVE LStrip(_)
LStrip(s) == IF s # <<>> /\ Head(s) \in SpaceChars THEN LStrip(Tail(s)) ELSE s

RECURSIVE RStrip(_)
RStrip(s) ==
    IF s # <<>> /\ s[Len(s)] \in SpaceChars
    THEN RStrip(SubSeq(s, 1, Len(s) - 1)) ELSE s

Strip(s) == RStrip(LStrip(s))

StartsWith(s, c) == s # <<>> /\ s[1] = c

EndsWith(s, c) == s # <<>> /\ s[Len(s)] = c

----------------------------------------------------------------------------
(* Lexer *)

TOKEN_TYPES ==
    <<"NUMBER", "STRING", "IDENTIFIER", "OPERATOR", "PARENTHESIS",
      "WHITESPACE", "COMMENT">>

\* length of the span at the start of s that balances quote q, 0 if none
QuotedLen(s, q) ==
    IF StartsWith(s, q) /\ IndexOf(Tail(s), q) > 0
    THEN 1 + IndexOf(Tail(s), q) ELSE 0

\* re.match(TOKEN_TYPES[kind], s): length of the match, 0 for no match
\* (no pattern matches the empty string)
MatchLen(kind, s) ==
    CASE kind = "NUMBER"      -> PrefixLen(s, Digits)
      [] kind = "STRING"      -> IF QuotedLen(s, DQ) > 0 THEN QuotedLen(s, DQ)
                                 ELSE QuotedLen(s, SQ)
      [] kind = "IDENTIFIER"  -> IF s # <<>> /\ Head(s) \in Letters \cup {"_"}
                                 THEN 1 + PrefixLen(Tail(s), WordChars) ELSE 0
      [] kind = "OPERATOR"    -> IF s # <<>> /\ Head(s) \in OperatorChars
                                 THEN 1 ELSE 0
      [] kind = "PARENTHESIS" -> IF s # <<>> /\ Head(s) \in ParenChars
                                 THEN 1 ELSE 0
      [] kind = "WHITESPACE"  -> PrefixLen(s, SpaceChars)
      [] kind = "COMMENT"     -> IF StartsWith(s, "#")
                                 \* `.` stops at a newline
                                 THEN IndexOf(Tail(s) \o <<"\n">>, "\n")
                                 ELSE 0

\* the inner for loop of tokenize: index of the first pattern that matches
\* at the start of s, 0 if none does
FirstMatch(s) ==
    IF \E i \in 1..Len(TOKEN_TYPES) : MatchLen(TOKEN_TYPES[i], s) > 0
    THEN CHOOSE i \in 1..Len(TOKEN_TYPES) :
            /\ MatchLen(TOKEN_TYPES[i], s) > 0
            /\ \A j \in 1..(i - 1) : MatchLen(TOKEN_TYPES[j], s) = 0
    ELSE 0

\* variant: the WHITESPACE / COMMENT filter is lost, every span is emitted
tokenize_step_emit_all(c, pos, toks) ==
    LET rest == Drop(c, pos)
        i    == FirstMatch(rest)
    IN  IF i = 0
        THEN [position |-> pos, tokens |-> toks,
              err |-> Raise("ValueError", <<c[pos + 1]>>)]
        ELSE LET token_type == TOKEN_TYPES[i]
                 value      == SubSeq(rest, 1, MatchLen(token_type, rest))
             IN  [position |-> pos + Len(value),
                  tokens   |-> Append(toks, <<token_type, value>>),
                  err      |-> NoError]

\* one iteration of the while loop of tokenize
tokenize_step(c, pos, toks) ==
    LET rest == Drop(c, pos)
        i    == FirstMatch(rest)
    IN  IF i = 0
        THEN [position |-> pos, tokens |-> toks,
              err |-> Raise("ValueError", <<c[pos + 1]>>)]
        ELSE LET token_type == TOKEN_TYPES[i]
                 value      == SubSeq(rest, 1, MatchLen(token_type, rest))
             IN  [position |-> pos + Len(value),
                  tokens   |-> IF token_type # "WHITESPACE" /\ token_type # "COMMENT"
                               THEN Append(toks, <<token_type, value>>)
                               ELSE toks,
                  err      |-> NoError]

RECURSIVE tokenize_loop(_, _, _), tokenize_next(_, _)
tokenize_loop(c, pos, toks) ==
    IF pos < Len(c) THEN tokenize_next(c, tokenize_step(c, pos, toks))
    ELSE [position |-> pos, tokens |-> toks, err |-> NoError]

\* after one iteration: the exception leaves the loop, else the loop goes on
tokenize_next(c, r) ==
    IF r.err # NoError THEN r ELSE tokenize_loop(c, r.position, r.tokens)

tokenize(c) == tokenize_loop(c, 0, <<>>)

----------------------------------------------------------------------------
(* AST model *)

ASTNode(type_, value, children) ==
    [type |-> type_, value |-> value, children |-> children]

NoNode == ASTNode("NONE", <<>>, <<>>)

----------------------------------------------------------------------------
(* Parser.  The source pops tokens from the front of one shared list; every *)
(* parse function here returns the node together with the list it leaves.  *)
(* The result of a call is handed on as an argument (expression_rest,      *)
(* factor_close, ...) where the source goes on to use it.                  *)

SUPPORTED_TYPES == {<<"S", "t", "r", "i", "n", "g">>, <<"I", "n", "t">>}

EmittedKinds == {"NUMBER", "STRING", "IDENTIFIER", "OPERATOR", "PARENTHESIS"}

Parsed(node, toks) == [err |-> NoError, node |-> node, tokens |-> toks]

ParseFail(t, toks) == [err |-> Raise(t, <<>>), node |-> NoNode, tokens |-> toks]

RECURSIVE parse_expression(_), expression_rest(_), parse_expression_loop(_, _),
          expression_fold(_, _, _), parse_term(_), term_rest(_),
          parse_term_loop(_, _), term_fold(_, _, _), parse_factor(_)

parse_expression(toks) == expression_rest(parse_term(toks))

\* the while loop of parse_expression, entered with the first term
expression_rest(r) ==
    IF r.err # NoError THEN r ELSE parse_expression_loop(r.node, r.tokens)

\* while tokens and tokens[0][1] in ('+', '-')
parse_expression_loop(node, toks) ==
    IF toks # <<>> /\ toks[1][2] \in {<<"+">>, <<"-">>}
    THEN expression_fold(node, toks[1], parse_term(Tail(toks)))
    ELSE Parsed(node, toks)

\* node = ASTNode("OPERATOR", operator[1], [node, parse_term(tokens)])
expression_fold(node, operator, r) ==
    IF r.err # NoError THEN r
    ELSE parse_expression_loop(
             ASTNode("OPERATOR", operator[2], <<node, r.node>>), r.tokens)

parse_term(toks) == term_rest(parse_factor(toks))

\* the while loop of parse_term, entered with the first factor
term_rest(r) ==
    IF r.err # NoError THEN r ELSE parse_term_loop(r.node, r.tokens)

\* while tokens and tokens[0][1] in ('*', '/')
parse_term_loop(node, toks) ==
    IF toks # <<>> /\ toks[1][2] \in {<<"*">>, <<"/">>}
    THEN term_fold(node, toks[1], parse_factor(Tail(toks)))
    ELSE Parsed(node, toks)

\* node = ASTNode("OPERATOR", operator[1], [node, parse_factor(tokens)])
term_fold(node, operator, r) ==
    IF r.err # NoError THEN r
    ELSE parse_term_loop(
             ASTNode("OPERATOR", operator[2], <<node, r.node>>), r.tokens)

\* if tokens.pop(0)[1] != ')': raise ValueError, else return expression
factor_close(r) ==
    IF r.err # NoError THEN r
    ELSE IF r.tokens = <<>> THEN ParseFail("IndexError", <<>>)
    ELSE IF r.tokens[1][2] # <<")">> THEN ParseFail("ValueError", Tail(r.tokens))
    ELSE Parsed(r.node, Tail(r.tokens))

\* return ASTNode("ASSIGNMENT", var_name, [expression_node])
factor_declare(var_name, r) ==
    IF r.err # NoError THEN r
    ELSE Parsed(ASTNode("ASSIGNMENT", var_name, <<r.node>>), r.tokens)

parse_factor(toks) ==
    IF toks = <<>> THEN ParseFail("IndexError", toks)
    ELSE IF toks[1] = <<"PARENTHESIS", <<"(">>>>
    THEN factor_close(parse_expression(Tail(toks)))
    ELSE IF toks[1][1] = "IDENTIFIER" /\ toks[1][2] \in SUPPORTED_TYPES
    THEN \* var_name = tokens.pop(0)[1]; then tokens.pop(0)[1] must be '='
         IF Len(toks) < 2 THEN ParseFail("IndexError", <<>>)
         ELSE IF Len(toks) < 3 THEN ParseFail("IndexError", <<>>)
         ELSE IF toks[3][2] # <<"=">>
              \* the message of the SyntaxError reads tokens[0] of what is left
              THEN IF Len(toks) < 4 THEN ParseFail("IndexError", <<>>)
                   ELSE ParseFail("SyntaxError", Drop(toks, 3))
         ELSE factor_declare(toks[2][2], parse_expression(Drop(toks, 3)))
    ELSE IF toks[1][1] \in EmittedKinds
    THEN Parsed(ASTNode(toks[1][1], toks[1][2], <<>>), Tail(toks))
    ELSE ParseFail("SyntaxError", Tail(toks))

IsCloseParen(tok) == tok = <<"PARENTHESIS", <<")">>>>

\* while tokens and not (tokens[0] is ')'): args.append(parse_expression(tokens))
RECURSIVE parse_args(_, _), args_append(_, _)
parse_args(nodes, toks) ==
    IF toks # <<>> /\ ~IsCloseParen(toks[1])
    THEN args_append(nodes, parse_expression(toks))
    ELSE [err |-> NoError, args |-> nodes, tokens |-> toks]

args_append(nodes, r) ==
    IF r.err # NoError THEN [err |-> r.err, args |-> nodes, tokens |-> r.tokens]
    ELSE parse_args(Append(nodes, r.node), r.tokens)

\* after the args loop: the ')' is required, then the FUNCTION_CALL node
call_close(func_name, a) ==
    IF a.err # NoError THEN [err |-> a.err, node |-> NoNode, tokens |-> a.tokens]
    ELSE IF a.tokens = <<>> \/ a.tokens[1][2] # <<")">>
    THEN ParseFail("SyntaxError", a.tokens)
    ELSE Parsed(ASTNode("FUNCTION_CALL", func_name, a.args), Tail(a.tokens))

\* return ASTNode('ASSIGNMENT', var_name, [expression])
assignment_node(var_name, r) ==
    IF r.err # NoError THEN r
    ELSE Parsed(ASTNode("ASSIGNMENT", var_name, <<r.node>>), r.tokens)

parse(toks) ==
    IF /\ Len(toks) >= 2
       /\ toks[1][1] = "IDENTIFIER"
       /\ toks[2] = <<"PARENTHESIS", <<"(">>>>
    THEN \* function call
         call_close(toks[1][2], parse_args(<<>>, Drop(toks, 2)))
    ELSE IF /\ Len(toks) >= 3
            /\ toks[1][1] = "IDENTIFIER"
            /\ toks[2][2] = <<"=">>
    THEN \* variable assignment
         assignment_node(toks[1][2], parse_expression(Drop(toks, 2)))
    ELSE parse_expression(toks)

----------------------------------------------------------------------------
(* Value model: class String and class Int *)

DigitChars == <<"0", "1", "2", "3", "4", "5", "6", "7", "8", "9">>

\* int(value) for a text of decimal digits
RECURSIVE StrToInt(_)
StrToInt(s) ==
    IF s = <<>> THEN 0
    ELSE 10 * StrToInt(SubSeq(s, 1, Len(s) - 1))
         + (IndexOf(DigitChars, s[Len(s)]) - 1)

\* str(n) for a Python int
RECURSIVE NatToStr(_)
NatToStr(n) ==
    IF n < 10 THEN <<DigitChars[n + 1]>>
    ELSE Append(NatToStr(n \div 10), DigitChars[(n % 10) + 1])

IntToStr(n) == IF n < 0 THEN <<"-">> \o NatToStr(0 - n) ELSE NatToStr(n)

IntObj(n) == [type |-> "Int", value |-> n]

StringObj(s) == [type |-> "String", value |-> s]

\* Int.__init__(value, passed=True) on the lexeme of a NUMBER node
Int__init__(value) == IntObj(StrToInt(value))

\* String.__init__(value, passed): the quotes test comes first, also when
\* passed is set
String__init__(value, passed) ==
    IF \/ StartsWith(value, DQ) /\ EndsWith(value, DQ)
       \/ StartsWith(value, SQ) /\ EndsWith(value, SQ)
    THEN [err |-> NoError, obj |-> StringObj(SubSeq(value, 2, Len(value) - 1))]
    ELSE IF passed
    THEN [err |-> NoError, obj |-> StringObj(value)]
    ELSE [err |-> Raise("ValueError", value), obj |-> StringObj(<<>>)]

\* variant: a String renders with quotes around it
Str_quoted(obj) ==
    IF obj.type = "Int" THEN IntToStr(obj.value) ELSE <<DQ>> \o obj.value \o <<DQ>>

\* __str__ of either class
Str(obj) == IF obj.type = "Int" THEN IntToStr(obj.value) ELSE obj.value

\* the lowest reference not in use
NewRef(hp) ==
    CHOOSE r \in 0..Cardinality(DOMAIN hp) :
        /\ r \notin DOMAIN hp
        /\ \A q \in 0..(r - 1) : q \in DOMAIN hp

OpResult(e, r, hp) == [err |-> e, ref |-> r, heap |-> hp]

New(obj, hp) == OpResult(NoError, NewRef(hp), hp @@ (NewRef(hp) :> obj))

\* other.__value inside a class body is other._<Class>__value: an object of
\* the other class has no such attribute
Int__add__(hp, self, other) ==
    IF hp[other].type # "Int" THEN OpResult(Raise("AttributeError", <<>>), self, hp)
    ELSE New(IntObj(hp[self].value + hp[other].value), hp)

Int__sub__(hp, self, other) ==
    IF hp[other].type # "Int" THEN OpResult(Raise("AttributeError", <<>>), self, hp)
    ELSE New(IntObj(hp[self].value - hp[other].value), hp)

String__add__(hp, self, other) ==
    IF hp[other].type # "String" THEN OpResult(Raise("AttributeError", <<>>), self, hp)
    ELSE New(String__init__(hp[self].value \o hp[other].value, TRUE).obj, hp)

\* for char in other.__value: self.__value = self.__value.replace(char, '', 1)
RECURSIVE RemoveChars(_, _)
RemoveChars(value, chars) ==
    IF chars = <<>> THEN value
    ELSE RemoveChars(ReplaceFirst(value, Head(chars)), Tail(chars))

\* the loop assigns to self.__value, then a new String is built from it
String__sub__(hp, self, other) ==
    IF hp[other].type # "String" THEN OpResult(Raise("AttributeError", <<>>), self, hp)
    ELSE New(String__init__(RemoveChars(hp[self].value, hp[other].value), TRUE).obj,
             [hp EXCEPT ![self] =
                 StringObj(RemoveChars(hp[self].value, hp[other].value))])

SUPPORTED_FUNCTIONS == {<<"p", "r", "i", "n", "t">>}

SUPPORTED_OPERATORS == {<<"+">>, <<"-">>}

\* operators[op](left, right): x + y and x - y dispatch on the class of x
ApplyOperator(op, hp, left, right) ==
    IF hp[left].type = "Int"
    THEN IF op = <<"+">> THEN Int__add__(hp, left, right)
                         ELSE Int__sub__(hp, left, right)
    ELSE IF op = <<"+">> THEN String__add__(hp, left, right)
                         ELSE String__sub__(hp, left, right)

----------------------------------------------------------------------------
(* Evaluator *)

Bind(vs, name, r) ==
    [n \in DOMAIN vs \cup {name} |-> IF n = name THEN r ELSE vs[n]]

EvalResult(e, r, vs, hp) == [err |-> e, ref |-> r, variables |-> vs, heap |-> hp]

\* the value an operator or a constructor returned, as the node's result
eval_new(vs, n) == EvalResult(n.err, n.ref, vs, n.heap)

eval_applied(vs, v) == EvalResult(v.err, v.ref, vs, v.heap)

RECURSIVE evaluate_ast(_, _, _), eval_right(_, _), eval_apply(_, _, _), eval_bind(_, _)
evaluate_ast(node, vs, hp) ==
    IF node.type = "NUMBER"
    THEN eval_new(vs, New(Int__init__(node.value), hp))
    ELSE IF node.type = "STRING"
    THEN eval_new(vs, New(String__init__(node.value, TRUE).obj, hp))
    ELSE IF node.type = "IDENTIFIER"
    THEN IF node.value \notin DOMAIN vs
         THEN EvalResult(Raise("NameError", node.value), 0, vs, hp)
         ELSE EvalResult(NoError, vs[node.value], vs, hp)
    ELSE IF node.type = "OPERATOR" /\ node.value \in SUPPORTED_OPERATORS
    THEN IF Len(node.children) < 1
         THEN EvalResult(Raise("IndexError", <<>>), 0, vs, hp)
         ELSE eval_right(node, evaluate_ast(node.children[1], vs, hp))
    ELSE IF node.type = "ASSIGNMENT"
    THEN eval_bind(node.value, evaluate_ast(node.children[1], vs, hp))
    ELSE EvalResult(Raise("ValueError", <<>>), 0, vs, hp)

\* right_value = evaluate_ast(ast.children[1], ...), after the left operand
eval_right(node, l) ==
    IF l.err # NoError THEN l
    ELSE IF Len(node.children) < 2
    THEN EvalResult(Raise("IndexError", <<>>), 0, l.variables, l.heap)
    ELSE eval_apply(node, l, evaluate_ast(node.children[2], l.variables, l.heap))

\* return operators[ast.value](left_value, right_value)
eval_apply(node, l, r) ==
    IF r.err # NoError THEN r
    ELSE eval_applied(r.variables, ApplyOperator(node.value, r.heap, l.ref, r.ref))

\* variables[var_name] = var_value; return var_value
eval_bind(var_name, v) ==
    IF v.err # NoError THEN v
    ELSE EvalResult(NoError, v.ref, Bind(v.variables, var_name, v.ref), v.heap)

----------------------------------------------------------------------------
(* run_pava_code *)

RECURSIVE Join(_)
Join(texts) ==
    IF texts = <<>> THEN <<>>
    ELSE IF Len(texts) = 1 THEN texts[1]
    ELSE texts[1] \o <<" ">> \o Join(Tail(texts))

\* print(*args): one line, the arguments' str() separated by a space
print(refs, hp, o) == Append(o, Join([i \in 1..Len(refs) |-> Str(hp[refs[i]])]))

\* [evaluate_ast(arg, variables, operators) for arg in children]
RECURSIVE evaluate_args(_, _, _, _), args_evaluated(_, _, _)
evaluate_args(children, refs, vs, hp) ==
    IF children = <<>>
    THEN [err |-> NoError, args |-> refs, variables |-> vs, heap |-> hp]
    ELSE args_evaluated(children, refs, evaluate_ast(Head(children), vs, hp))

args_evaluated(children, refs, r) ==
    IF r.err # NoError
    THEN [err |-> r.err, args |-> refs, variables |-> r.variables, heap |-> r.heap]
    ELSE evaluate_args(Tail(children), Append(refs, r.ref), r.variables, r.heap)

\* the locals of run_pava_code that hold String / Int objects
Locals(a, e) == [args |-> a, evalueation |-> e]

Refs(seq) == {seq[i] : i \in 1..Len(seq)}

\* an object is freed when neither a name of `variables` nor one of the locals
\* `args` and `evalueation` refers to it
Collect(vs, loc, hp) ==
    [r \in {vs[n] : n \in DOMAIN vs} \cup Refs(loc.args) \cup Refs(loc.evalueation)
        |-> hp[r]]

Outcome(p, toks, node, loc, vs, hp, o, e) ==
    [pc |-> p, tokens |-> toks, ast |-> node, args |-> loc.args,
     evalueation |-> loc.evalueation, variables |-> vs,
     heap |-> Collect(vs, loc, hp), out |-> o, err |-> e]

\* evaluate_ast(abstract_syntax_tree, variables, operators) of an ASSIGNMENT
statement_assigned(toks, node, loc, o, r) ==
    Outcome(IF r.err = NoError THEN "ok" ELSE "evaluate",
            toks, node, loc, r.variables, r.heap, o, r.err)

\* args = [...]; functions[name](*args): args is bound once every argument
\* is evaluated
statement_called(toks, node, loc, o, a) ==
    IF a.err # NoError
    THEN Outcome("evaluate", toks, node, loc, a.variables, a.heap, o, a.err)
    ELSE Outcome("ok", toks, node, Locals(a.args, loc.evalueation), a.variables,
                 a.heap, print(a.args, a.heap, o), NoError)

\* evalueation = evaluate_ast(...); it is committed if its class is the
\* bound one's
statement_reevaluated(toks, node, loc, vs, o, r) ==
    IF r.heap[r.ref].type = r.heap[vs[node.value]].type
    THEN Outcome("ok", toks, node, Locals(loc.args, <<r.ref>>),
                 Bind(vs, node.value, r.ref), r.heap, o, NoError)
    ELSE Outcome("ok", toks, node, Locals(loc.args, <<r.ref>>), vs, r.heap, o, NoError)

\* variant: print is called on the arguments evaluated before the failure
statement_called_eager(toks, node, loc, o, a) ==
    Outcome(IF a.err = NoError THEN "ok" ELSE "evaluate",
            toks, node, Locals(a.args, loc.evalueation), a.variables, a.heap,
            print(a.args, a.heap, o), a.err)

run_statement_eager(toks, node, loc, vs, hp, o) ==
    IF node.type = "ASSIGNMENT"
    THEN statement_assigned(toks, node, loc, o, evaluate_ast(node, vs, hp))
    ELSE IF node.type = "FUNCTION_CALL"
    THEN IF node.value \in SUPPORTED_FUNCTIONS
         THEN statement_called_eager(toks, node, loc, o,
                                     evaluate_args(node.children, <<>>, vs, hp))
         ELSE Outcome("evaluate", toks, node, loc, vs, hp, o,
                      Raise("NameError", node.value))
    ELSE IF node.type = "IDENTIFIER"
    THEN IF node.value \in DOMAIN vs
         THEN statement_reevaluated(toks, node, loc, vs, o, evaluate_ast(node, vs, hp))
         ELSE Outcome("evaluate", toks, node, loc, vs, hp, o,
                      Raise("NameError", node.value))
    ELSE Outcome("evaluate", toks, node, loc, vs, hp, o, Raise("SyntaxError", <<>>))

\* variant: the bare identifier is re-evaluated as text and the result is
\* committed whatever its class
statement_overwritten(toks, node, loc, vs, o, r) ==
    Outcome("ok", toks, node, Locals(loc.args, <<r.ref>>),
            Bind(vs, node.value, r.ref), r.heap, o, NoError)

run_statement_overwrite(toks, node, loc, vs, hp, o) ==
    IF node.type = "ASSIGNMENT"
    THEN statement_assigned(toks, node, loc, o, evaluate_ast(node, vs, hp))
    ELSE IF node.type = "FUNCTION_CALL"
    THEN IF node.value \in SUPPORTED_FUNCTIONS
         THEN statement_called(toks, node, loc, o,
                               evaluate_args(node.children, <<>>, vs, hp))
         ELSE Outcome("evaluate", toks, node, loc, vs, hp, o,
                      Raise("NameError", node.value))
    ELSE IF node.type = "IDENTIFIER"
    THEN IF node.value \in DOMAIN vs
         THEN statement_overwritten(toks, node, loc, vs, o,
                                    New(StringObj(node.value), hp))
         ELSE Outcome("evaluate", toks, node, loc, vs, hp, o,
                      Raise("NameError", node.value))
    ELSE Outcome("evaluate", toks, node, loc, vs, hp, o, Raise("SyntaxError", <<>>))

\* the dispatch on abstract_syntax_tree.type
run_statement(toks, node, loc, vs, hp, o) ==
    IF node.type = "ASSIGNMENT"
    THEN statement_assigned(toks, node, loc, o, evaluate_ast(node, vs, hp))
    ELSE IF node.type = "FUNCTION_CALL"
    THEN IF node.value \in SUPPORTED_FUNCTIONS
         THEN statement_called(toks, node, loc, o,
                               evaluate_args(node.children, <<>>, vs, hp))
         ELSE Outcome("evaluate", toks, node, loc, vs, hp, o,
                      Raise("NameError", node.value))
    ELSE IF node.type = "IDENTIFIER"
    THEN IF node.value \in DOMAIN vs
         THEN statement_reevaluated(toks, node, loc, vs, o, evaluate_ast(node, vs, hp))
         ELSE Outcome("evaluate", toks, node, loc, vs, hp, o,
                      Raise("NameError", node.value))
    ELSE Outcome("evaluate", toks, node, loc, vs, hp, o, Raise("SyntaxError", <<>>))

\* one iteration of `for line in lines`, on the stripped line:
\* abstract_syntax_tree = parse(tokens), then the dispatch
line_parsed(node0, loc, vs, hp, o, p) ==
    IF p.err # NoError THEN Outcome("parse", p.tokens, node0, loc, vs, hp, o, p.err)
    ELSE run_statement(p.tokens, p.node, loc, vs, hp, o)

\* tokens = tokenize(line), then parse
line_tokenized(toks0, node0, loc, vs, hp, o, t) ==
    IF t.err # NoError THEN Outcome("tokenize", toks0, node0, loc, vs, hp, o, t.err)
    ELSE line_parsed(node0, loc, vs, hp, o, parse(t.tokens))

run_line(stripped, toks0, node0, loc, vs, hp, o) ==
    IF stripped = <<>> \/ StartsWith(stripped, "#")
    THEN Outcome("skip", toks0, node0, loc, vs, hp, o, NoError)
    ELSE line_tokenized(toks0, node0, loc, vs, hp, o, tokenize(stripped))

\* the lines a source file is made of
FileLines == {
    \* Int x = 5
    <<"I", "n", "t", " ", "x", " ", "=", " ", "5">>,
    \* String a = "hello"
    <<"S", "t", "r", "i", "n", "g", " ", "a", " ", "=", " ", "\"", "h", "e", "l", "l", "o", "\"">>,
    \* String b = a
    <<"S", "t", "r", "i", "n", "g", " ", "b", " ", "=", " ", "a">>,
    \* x = a
    <<"x", " ", "=", " ", "a">>,
    \* x = x - 7
    <<"x", " ", "=", " ", "x", " ", "-", " ", "7">>,
    \* print(a - "l")
    <<"p", "r", "i", "n", "t", "(", "a", " ", "-", " ", "\"", "l", "\"", ")">>,
    \* print(a - b)
    <<"p", "r", "i", "n", "t", "(", "a", " ", "-", " ", "b", ")">>,
    \* print(x)
    <<"p", "r", "i", "n", "t", "(", "x", ")">>,
    \* print(a b)
    <<"p", "r", "i", "n", "t", "(", "a", " ", "b", ")">>,
    \* x
    <<"x">>,
    \* a
    <<"a">>,
    \* (x)
    <<"(", "x", ")">>,
    \* y
    <<"y">>,
    \* Int x = 2 + 3 * 4
    <<"I", "n", "t", " ", "x", " ", "=", " ", "2", " ", "+", " ", "3", " ", "*", " ", "4">>,
    \* Int x = 1 + 0 * 2
    <<"I", "n", "t", " ", "x", " ", "=", " ", "1", " ", "+", " ", "0", " ", "*", " ", "2">>,
    \* print(1 + "a")
    <<"p", "r", "i", "n", "t", "(", "1", " ", "+", " ", "\"", "a", "\"", ")">>,
    \* x = "a" - 1
    <<"x", " ", "=", " ", "\"", "a", "\"", " ", "-", " ", "1">>,
    \* x = 1 - "a"
    <<"x", " ", "=", " ", "1", " ", "-", " ", "\"", "a", "\"">>,
    \* Int x = "a" + 1
    <<"I", "n", "t", " ", "x", " ", "=", " ", "\"", "a", "\"", " ", "+", " ", "1">>,
    \* print(x y)
    <<"p", "r", "i", "n", "t", "(", "x", " ", "y", ")">>,
    \* print(y)
    <<"p", "r", "i", "n", "t", "(", "y", ")">>,
    \* print(Int y = 1 y)
    <<"p", "r", "i", "n", "t", "(", "I", "n", "t", " ", "y", " ", "=", " ", "1", " ", "y", ")">>,
    \* x = 1 2
    <<"x", " ", "=", " ", "1", " ", "2">>,
    \* print(x, a)
    <<"p", "r", "i", "n", "t", "(", "x", ",", " ", "a", ")">>,
    \* Int x y z
    <<"I", "n", "t", " ", "x", " ", "y", " ", "z">>,
    \*   # note
    <<" ", " ", "#", " ", "n", "o", "t", "e">>,
    \* x between a vertical tab and a unit separator
    <<VT, "x", US>>,
    \* (empty line)
    <<>>,
    \* print("'a'" - "")
    <<"p", "r", "i", "n", "t", "(", "\"", "'", "a", "'", "\"", " ", "-", " ", "\"", "\"", ")">>
    }

EmptyMap == [n \in {} |-> 0]

Init ==
    /\ code = <<>>
    /\ position = 0
    /\ tokens = <<>>
    /\ ast = NoNode
    /\ variables = EmptyMap
    /\ heap = EmptyMap
    /\ out = <<>>
    /\ err = NoError
    /\ args = <<>>
    /\ evalueation = <<>>
    /\ line = <<>>
    /\ lineno = 0
    /\ rendered = <<>>
    /\ operands = <<>>
    /\ pc = "start"

\* the state one iteration of the line loop leaves
Iterate(stripped, r) ==
    /\ line' = stripped
    /\ lineno' = lineno + 1
    /\ pc' = r.pc
    /\ tokens' = r.tokens
    /\ ast' = r.ast
    /\ args' = r.args
    /\ evalueation' = r.evalueation
    /\ variables' = r.variables
    /\ heap' = r.heap
    /\ out' = r.out
    /\ err' = r.err

\* variant: an exception is caught per line and the loop goes on
RunLine_recover(l) ==
    /\ lineno < MaxLines
    /\ Iterate(Strip(l), run_line(Strip(l), tokens, ast, Locals(args, evalueation),
                                variables, heap, out))
    /\ UNCHANGED <<code, position, rendered, operands>>

\* the body of the for loop runs on the next line of the file; an exception
\* leaves the loop
RunLine(l) ==
    /\ pc \in {"start", "ok", "skip"}
    /\ lineno < MaxLines
    /\ Iterate(Strip(l), run_line(Strip(l), tokens, ast, Locals(args, evalueation),
                                variables, heap, out))
    /\ UNCHANGED <<code, position, rendered, operands>>

Next == \E l \in FileLines : RunLine(l)

Spec == Init /\ [][Next]_vars

----------------------------------------------------------------------------
(* tokenize, one loop iteration at a time, then the literals it produced   *)
(* turned into values and rendered as print renders them                   *)

RECURSIVE SeqsUpTo(_, _)
SeqsUpTo(S, n) ==
    IF n = 0 THEN {<<>>}
    ELSE LET shorter == SeqsUpTo(S, n - 1) IN
         shorter \cup {Append(t, c) : t \in shorter, c \in S}

LexAlphabet == {"0", "7", "x", DQ, SQ, " ", VT, "+", "(", "#", "!"}

LexExamples == {
    \* Int x = 5
    <<"I", "n", "t", " ", "x", " ", "=", " ", "5">>,
    \* "'x'" 007
    <<"\"", "'", "x", "'", "\"", " ", "0", "0", "7">>,
    \* x=(7+y1) # end
    <<"x", "=", "(", "7", "+", "y", "1", ")", " ", "#", " ", "e", "n", "d">>,
    \* print(x, 7)
    <<"p", "r", "i", "n", "t", "(", "x", ",", " ", "7", ")">>
    }

LexInputs == SeqsUpTo(LexAlphabet, MaxCodeLen) \cup LexExamples

InitLex ==
    /\ code \in LexInputs
    /\ position = 0
    /\ tokens = <<>>
    /\ ast = NoNode
    /\ variables = EmptyMap
    /\ heap = EmptyMap
    /\ out = <<>>
    /\ err = NoError
    /\ args = <<>>
    /\ evalueation = <<>>
    /\ line = <<>>
    /\ lineno = 0
    /\ rendered = <<>>
    /\ operands = <<>>
    /\ pc = "tokenize"

\* the state one iteration of the while loop leaves
Advance(r) ==
    /\ position' = r.position
    /\ tokens' = r.tokens
    /\ err' = r.err
    /\ pc' = IF r.err = NoError THEN "tokenize" ELSE "failed"

\* one iteration of `while position < len(code)`
LexStep ==
    /\ pc = "tokenize"
    /\ position < Len(code)
    /\ Advance(tokenize_step(code, position, tokens))
    /\ UNCHANGED <<code, ast, variables, heap, out, line, lineno, rendered, operands>>
    /\ UNCHANGED <<args, evalueation>>

\* return tokens
LexReturn ==
    /\ pc = "tokenize"
    /\ position >= Len(code)
    /\ pc' = "tokenized"
    /\ UNCHANGED <<code, position, tokens, ast, variables, heap, out, err, line,
                   lineno, rendered, operands>>
    /\ UNCHANGED <<args, evalueation>>

IsLiteral(tok) == tok[1] \in {"NUMBER", "STRING"}

\* the value evaluate_ast builds for a literal token, rendered by __str__
Rendering(r) == Str(r.heap[r.ref])

RenderLiteral(tok) ==
    Rendering(evaluate_ast(ASTNode(tok[1], tok[2], <<>>), EmptyMap, EmptyMap))

RenderLiterals ==
    /\ pc = "tokenized"
    /\ rendered' = [i \in 1..Len(tokens) |->
                       IF IsLiteral(tokens[i]) THEN RenderLiteral(tokens[i]) ELSE <<>>]
    /\ pc' = "rendered"
    /\ UNCHANGED <<code, position, tokens, ast, variables, heap, out, err, line,
                   lineno, operands>>
    /\ UNCHANGED <<args, evalueation>>

NextLex == LexStep \/ LexReturn \/ RenderLiterals

SpecLex == InitLex /\ [][NextLex]_vars

----------------------------------------------------------------------------
(* parse on token lists the lexer can produce *)

TokenVocab == {
    <<"IDENTIFIER", <<"x">>>>,
    <<"IDENTIFIER", <<"I", "n", "t">>>>,
    <<"NUMBER", <<"1">>>>,
    <<"OPERATOR", <<"+">>>>,
    <<"OPERATOR", <<"*">>>>,
    <<"OPERATOR", <<"=">>>>,
    <<"PARENTHESIS", <<"(">>>>,
    <<"PARENTHESIS", <<")">>>>
    }

ParseExamples == {
    \* x = 1 + 1 * (x)
    tokenize(<<"x", " ", "=", " ", "1", " ", "+", " ", "1", " ", "*", " ", "(", "x", ")">>).tokens,
    \* print(x) x
    tokenize(<<"p", "r", "i", "n", "t", "(", "x", ")", " ", "x">>).tokens,
    \* Int x = (1 + x) * 1
    tokenize(<<"I", "n", "t", " ", "x", " ", "=", " ", "(", "1", " ", "+", " ", "x", ")", " ", "*", " ", "1">>).tokens
    }

ParseInputs == SeqsUpTo(TokenVocab, MaxTokens) \cup ParseExamples

InitParse ==
    /\ code = <<>>
    /\ position = 0
    /\ tokens \in ParseInputs
    /\ ast = NoNode
    /\ variables = EmptyMap
    /\ heap = EmptyMap
    /\ out = <<>>
    /\ err = NoError
    /\ args = <<>>
    /\ evalueation = <<>>
    /\ line = <<>>
    /\ lineno = 0
    /\ rendered = <<>>
    /\ operands = <<>>
    /\ pc = "parse"

\* what parse returns or raises, and what it leaves of the list
Returned(r) ==
    /\ tokens' = r.tokens
    /\ ast' = r.node
    /\ err' = r.err

\* abstract_syntax_tree = parse(tokens); the list is consumed in place
Parse ==
    /\ pc = "parse"
    /\ Returned(parse(tokens))
    /\ pc' = "parsed"
    /\ UNCHANGED <<code, position, variables, heap, out, line, lineno, rendered, operands>>
    /\ UNCHANGED <<args, evalueation>>

NextParse == Parse

SpecParse == InitParse /\ [][NextParse]_vars

----------------------------------------------------------------------------
(* String.__sub__ on two String objects, or on one object and itself *)

SubAlphabet == {"l", "o", SQ}

SubExamples == {
    \* "hello" - "l"
    <<<<"h", "e", "l", "l", "o">>, <<"l">>>>,
    \* "hello" - "xleh"
    <<<<"h", "e", "l", "l", "o">>, <<"x", "l", "e", "h">>>>
    }

SubInputs ==
    (SeqsUpTo(SubAlphabet, MaxStrLen) \X SeqsUpTo(SubAlphabet, MaxStrLen))
        \cup SubExamples

InitSub ==
    /\ code = <<>>
    /\ position = 0
    /\ tokens = <<>>
    /\ ast = NoNode
    /\ variables = EmptyMap
    /\ \E pair \in SubInputs : heap = (0 :> StringObj(pair[1])) @@ (1 :> StringObj(pair[2]))
    /\ out = <<>>
    /\ err = NoError
    /\ args = <<>>
    /\ evalueation = <<>>
    /\ line = <<>>
    /\ lineno = 0
    /\ rendered = <<>>
    /\ operands = <<>>
    /\ pc = "sub"

\* the heap String.__sub__ leaves and its result, rendered by __str__
Difference(r) ==
    /\ heap' = r.heap
    /\ err' = r.err
    /\ rendered' = <<Str(r.heap[r.ref])>>

\* result = self - other
Subtract(self, other) ==
    /\ pc = "sub"
    /\ Difference(String__sub__(heap, self, other))
    /\ operands' = <<heap[self].value, heap[other].value>>
    /\ pc' = "subtracted"
    /\ UNCHANGED <<code, position, tokens, ast, variables, out, line, lineno>>
    /\ UNCHANGED <<args, evalueation>>

NextSub == \E other \in {0, 1} : Subtract(0, other)

SpecSub == InitSub /\ [][NextSub]_vars

----------------------------------------------------------------------------
(* Properties of run_pava_code *)

Name_x == <<"x">>

\* the step is one iteration of the line loop
LineStep == lineno' = lineno + 1

\* the iteration got past tokenize and parse: ast' is the line's statement
Dispatched == LineStep /\ pc' \in {"ok", "evaluate"}

\* the content bound to name n before and after the step
ContentKept(n) == n \in DOMAIN variables' /\ heap'[variables'[n]] = heap[variables[n]]

\* C1: once a line raises an error the run is over: the Environment, the
\* output and the line counter never change again; the failing line commits no
\* output, a line that fails in tokenize or parse leaves the Environment as it
\* was, and a line that fails in evaluation unbinds no name.
C1_AbortOnFirstError ==
    [][ /\ (err # NoError => UNCHANGED <<variables, heap, out, lineno>>)
        /\ (err' # NoError =>
              /\ out' = out
              /\ DOMAIN variables \subseteq DOMAIN variables'
              /\ (pc' \in {"tokenize", "parse"} =>
                     variables' = variables /\ heap' = heap)) ]_vars

C1_Witness == err # NoError /\ DOMAIN variables # {} /\ out # <<>>

RECURSIVE HasAssignment(_)
HasAssignment(node) ==
    \/ node.type = "ASSIGNMENT"
    \/ \E i \in 1..Len(node.children) : HasAssignment(node.children[i])

\* C2: a statement without an Assignment node (operators + and - only)
\* leaves the content of every existing binding exactly as it was.
C2_OperatorsMutateNothing ==
    [][ (Dispatched /\ ~HasAssignment(ast')) =>
            \A n \in DOMAIN variables : ContentKept(n) ]_vars

MulLine(a, b, c) ==
    <<"I", "n", "t", " ", "x", " ", "=", " ">> \o <<DigitChars[a + 1]>> \o <<" ", "+", " ">>
        \o <<DigitChars[b + 1]>> \o <<" ", "*", " ">> \o <<DigitChars[c + 1]>>

\* C3: `Int x = a + b * c` on one-digit literals completes without error and
\* binds x to IntValue(a + (b * c)).
C3_MulBindsTighter ==
    \A a, b, c \in 0..4 :
        line = MulLine(a, b, c) =>
            /\ err = NoError
            /\ Name_x \in DOMAIN variables
            /\ heap[variables[Name_x]] = IntObj(a + (b * c))

IsPrintCall(node) == node.type = "FUNCTION_CALL" /\ node.value \in SUPPORTED_FUNCTIONS

ArgsAreLeaves(node) ==
    \A i \in 1..Len(node.children) :
        node.children[i].type \in {"NUMBER", "STRING", "IDENTIFIER"}

UnboundArgs(node, vs) ==
    {i \in 1..Len(node.children) :
        node.children[i].type = "IDENTIFIER" /\ node.children[i].value \notin DOMAIN vs}

Least(S) == CHOOSE i \in S : \A j \in S : i <= j

\* C5: a call of a known function that ends in NameError commits no output;
\* and when the arguments are literals and names, one of them unbound, the
\* call raises NameError for the leftmost unbound name and commits no output.
C5_UnboundArgumentNoOutput ==
    [][ (Dispatched /\ IsPrintCall(ast')) =>
            /\ (err'.type = "NameError" => out' = out)
            /\ (ArgsAreLeaves(ast') /\ UnboundArgs(ast', variables) # {} =>
                   /\ err' = Raise("NameError",
                                   ast'.children[Least(UnboundArgs(ast', variables))].value)
                   /\ out' = out) ]_vars

C5_Witness ==
    /\ pc = "evaluate"
    /\ IsPrintCall(ast)
    /\ err.type = "NameError"
    /\ Len(ast.children) >= 2
    /\ ast.children[1].value \in DOMAIN variables
    /\ ast.children[2].value = err.arg

\* C6: a top-level bare Identifier statement naming a bound variable raises
\* nothing, keeps the variant of that variable's stored value, and changes no
\* other binding, no name set and no output.
C6_BareIdentifierKeepsVariant ==
    [][ (LineStep /\ pc' = "ok" /\ ast'.type = "IDENTIFIER"
            /\ ast'.value \in DOMAIN variables) =>
            /\ err' = NoError
            /\ out' = out
            /\ DOMAIN variables' = DOMAIN variables
            /\ heap'[variables'[ast'.value]].type = heap[variables[ast'.value]].type
            /\ \A n \in DOMAIN variables \ {ast'.value} :
                   variables'[n] = variables[n] /\ ContentKept(n) ]_vars

C6_Witness ==
    /\ pc = "ok"
    /\ ast.type = "IDENTIFIER"
    /\ ast.value = line
    /\ Cardinality(DOMAIN variables) >= 2
    /\ ast.value \in DOMAIN variables
    /\ heap[variables[ast.value]].type = "Int"

CrossVariantLines == {
    \* print(1 + "a")
    <<"p", "r", "i", "n", "t", "(", "1", " ", "+", " ", "\"", "a", "\"", ")">>,
    \* x = "a" - 1
    <<"x", " ", "=", " ", "\"", "a", "\"", " ", "-", " ", "1">>,
    \* x = 1 - "a"
    <<"x", " ", "=", " ", "1", " ", "-", " ", "\"", "a", "\"">>,
    \* Int x = "a" + 1
    <<"I", "n", "t", " ", "x", " ", "=", " ", "\"", "a", "\"", " ", "+", " ", "1">>
    }

\* C8: + or - on one Int and one String operand, in either order, fails with
\* TypeError and binds nothing.
C8_CrossVariantTypeError ==
    [][ (LineStep /\ line' \in CrossVariantLines) =>
            /\ err'.type = "TypeError"
            /\ variables' = variables ]_vars

----------------------------------------------------------------------------
(* Properties of parse *)

\* C7: parse never returns an AST while tokens remain in the token list.
C7_NoTrailingTokens == (pc = "parsed" /\ err = NoError) => tokens = <<>>

----------------------------------------------------------------------------
(* Properties of String.__sub__ *)

\* for each character of R in order, delete its first remaining occurrence
RECURSIVE MultisetRemoval(_, _)
MultisetRemoval(L, R) ==
    IF R = <<>> THEN L
    ELSE LET c == Head(R)
             hits == {i \in 1..Len(L) : L[i] = c}
         IN  IF hits = {} THEN MultisetRemoval(L, Tail(R))
             ELSE MultisetRemoval(
                      [i \in 1..(Len(L) - 1) |->
                          IF i < Least(hits) THEN L[i] ELSE L[i + 1]],
                      Tail(R))

\* C4: L - R is L with, for each character of R from left to right, the first
\* remaining occurrence of that character deleted, and nothing else changed.
C4_SubIsMultisetRemoval ==
    pc = "subtracted" => rendered = <<MultisetRemoval(operands[1], operands[2])>>

----------------------------------------------------------------------------
(* Properties of tokenize and of the literals *)

RECURSIVE DropLeadingZeros(_)
DropLeadingZeros(s) ==
    IF Len(s) > 1 /\ Head(s) = "0" THEN DropLeadingZeros(Tail(s)) ELSE s

Unquoted(lexeme) == SubSeq(lexeme, 2, Len(lexeme) - 1)

\* C9 as stated: a literal token renders back as its own content, a Number
\* as the same digit string, a String as the lexeme without its quotes.
C9_RoundTripVerbatim ==
    pc = "rendered" =>
        \A i \in 1..Len(tokens) :
            /\ (tokens[i][1] = "NUMBER" => rendered[i] = tokens[i][2])
            /\ (tokens[i][1] = "STRING" => rendered[i] = Unquoted(tokens[i][2]))

\* C9 amended: a Number token renders as its digit string without leading
\* zeros (the same string when it has none), a String token as the lexeme
\* without its one surrounding pair of quotes.
C9_RoundTripCanonical ==
    pc = "rendered" =>
        \A i \in 1..Len(tokens) :
            /\ (tokens[i][1] = "NUMBER" => rendered[i] = DropLeadingZeros(tokens[i][2]))
            /\ (tokens[i][1] = "STRING" => rendered[i] = Unquoted(tokens[i][2]))

C9_Witness ==
    /\ pc = "rendered"
    /\ tokens = <<<<"STRING", <<"\"", "'", "x", "'", "\"">>>>, <<"NUMBER", <<"0", "0", "7">>>>>>
    /\ rendered = <<<<"'", "x", "'">>, <<"7">>>>

Example_Int_x_5 == <<"I", "n", "t", " ", "x", " ", "=", " ", "5">>

Matching(s) == {i \in 1..Len(TOKEN_TYPES) : MatchLen(TOKEN_TYPES[i], s) > 0}

C10_State ==
    /\ \A i \in 1..Len(tokens) : tokens[i][1] \in EmittedKinds
    /\ (pc = "tokenized" => position = Len(code) /\ err = NoError)
    /\ (pc = "tokenized" /\ code = Example_Int_x_5 =>
           tokens = <<<<"IDENTIFIER", <<"I", "n", "t">>>>, <<"IDENTIFIER", <<"x">>>>,
                      <<"OPERATOR", <<"=">>>>, <<"NUMBER", <<"5">>>>>>)

C10_Step ==
    (pc = "tokenize" /\ position < Len(code)) =>
        LET rest == Drop(code, position) IN
        IF Matching(rest) = {}
        THEN /\ pc' = "failed"
             /\ err' = Raise("ValueError", <<code[position + 1]>>)
             /\ tokens' = tokens
        ELSE LET kind == TOKEN_TYPES[Least(Matching(rest))]
                 span == SubSeq(code, position + 1, position')
             IN  /\ position' > position
                 /\ position' <= Len(code)
                 /\ Len(span) = MatchLen(kind, rest)
                 /\ (code[position + 1] \in Digits => kind = "NUMBER")
                 /\ tokens' = IF kind \in {"WHITESPACE", "COMMENT"} THEN tokens
                              ELSE Append(tokens, <<kind, span>>)
                 /\ err' = NoError

\* C10: the cursor strictly advances by the match of the first pattern, in
\* the order of TOKEN_TYPES, that matches at the cursor; a digit at the cursor
\* gives a Number token; Whitespace and Comment spans are consumed and not
\* emitted; tokens are appended in source order; with no match lexing fails
\* naming the character at the cursor; `Int x = 5` gives its four tokens.
C10_Tokenize == [](C10_State) /\ [][C10_Step]_vars

C10_Witness ==
    /\ pc = "tokenized"
    /\ code = Example_Int_x_5
    /\ Len(tokens) = 4
    /\ position = 9

====
